---- MODULE Spec2Model ----
(***************************************************************************)
(* Model of `coder config-ssh` (cli/configssh.go).                         *)
(*                                                                         *)
(* Texts are TLA+ strings, one character per byte of the Go string, so     *)
(* strings.Index, the slice expressions and += are modelled on the real    *)
(* literals.  One behaviour is a succession of runs of the command's RunE  *)
(* against one file system and one (fixed) set of resolver answers.        *)
(* createClient, currentOrganization and currentBinPath are taken to       *)
(* succeed; binaryFile is the string currentBinPath returned.              *)
(***************************************************************************)
EXTENDS Integers, Sequences, FiniteSets, TLC

(***************************************************************************)
(* Bounds of the model.                                                    *)
(***************************************************************************)
\* runs of the command in one behaviour
MaxRuns == 2
\* pieces (a user character, a newline, a marker) of the prior file
MaxPieces == 3
\* resources in the resolver's answer, over all workspaces
MaxResources == 2
\* agents of one resource
MaxAgents == 2

(***************************************************************************)
(* Constants of configssh.go.                                              *)
(***************************************************************************)
sshStartToken == "# ------------START-CODER-----------"

sshStartMessage ==
    "# This was generated by \"coder config-ssh\".\n#\n# To remove this blob, run:\n#\n#    coder config-ssh --remove\n#\n# You should not hand-edit this section, unless you are deleting it."

sshEndToken == "# ------------END-CODER------------"

WorkspaceTransitionStart == "start"

WorkspaceTransitionStop == "stop"

(***************************************************************************)
(* Go string primitives.                                                   *)
(***************************************************************************)
\* s[lo:hi] for in-range bounds (0-based, hi exclusive)
Slice(s, lo, hi) == SubSeq(s, lo + 1, hi)

\* strings.HasPrefix at byte offset i
MatchAt(s, sub, i) == /\ i + Len(sub) <= Len(s)
                      /\ Slice(s, i, i + Len(sub)) = sub

\* strings.Index: offset of the first occurrence of sub in s, or -1
Index(s, sub) ==
    LET hits == {i \in 0..(Len(s) - Len(sub)) : MatchAt(s, sub, i)}
    IN  IF hits = {} THEN -1
        ELSE CHOOSE i \in hits : \A j \in hits : i <= j

RECURSIVE Join(_, _)
\* strings.Join
Join(elems, sep) ==
    IF Len(elems) = 0 THEN ""
    ELSE IF Len(elems) = 1 THEN elems[1]
    ELSE elems[1] \o sep \o Join(Tail(elems), sep)

\* the escape strconv.Quote writes for one byte of printable ASCII, quote,
\* backslash, newline or tab
QuoteChar(c) ==
    IF c = "\"" THEN "\\\""
    ELSE IF c = "\\" THEN "\\\\"
    ELSE IF c = "\n" THEN "\\n"
    ELSE IF c = "\t" THEN "\\t"
    ELSE c

RECURSIVE QuoteBody(_, _)
QuoteBody(s, i) ==
    IF i > Len(s) THEN ""
    ELSE QuoteChar(SubSeq(s, i, i)) \o QuoteBody(s, i + 1)

\* fmt's %q verb on a string
Quote(s) == "\"" \o QuoteBody(s, 1) \o "\""


(***************************************************************************)
(* Inputs: the resolver's answers, the flags and the prior file.           *)
(***************************************************************************)
WorkspaceNames == <<"a", "a.b">>

AgentNames == <<"b", "c", "d", "e", "f", "g", "h", "i", "j", "k", "l", "m">>

OptionLists ==
    {<<>>,
     <<"ForwardAgent yes">>,
     <<"ForwardAgent yes", "User coder">>,
     <<"SetEnv NOTE=" \o sshEndToken>>}

BinaryFiles == {"coder", "C:\\bin\\coder.exe"}

Roots == {"/home/u/.coder"}

SeqsUpTo(S, n) == UNION {[1..k -> S] : k \in 0..n}

\* a resource as the resolver describes it before its agents are named
ResourceShapes ==
    [Transition : {WorkspaceTransitionStart, WorkspaceTransitionStop},
     NumAgents : 0..MaxAgents]

\* the k-th resource of the answer, its agents named apart from every other
\* resource's
MakeResource(shape, k) ==
    [Transition |-> shape.Transition,
     Agents |-> [j \in 1..shape.NumAgents |->
                    [Name |-> AgentNames[(k - 1) * (MaxAgents + 1) + j]]]]

\* the workspace list of n workspaces over the resources `shapes`, the first
\* `split` of them built by the first workspace
MakeWorkspaces(n, shapes, split) ==
    LET all == [k \in 1..Len(shapes) |-> MakeResource(shapes[k], k)]
        from(i) == IF n = 1 THEN all
                   ELSE IF i = 1 THEN SubSeq(all, 1, split)
                   ELSE SubSeq(all, split + 1, Len(all))
    IN  [i \in 1..n |-> [Name |-> WorkspaceNames[i], Resources |-> from(i)]]

Topologies ==
    {<<>>}
    \cup {MakeWorkspaces(1, sh, 0) : sh \in SeqsUpTo(ResourceShapes, MaxResources)}
    \cup UNION {{MakeWorkspaces(2, sh, split) : split \in 0..Len(sh)} :
                    sh \in SeqsUpTo(ResourceShapes, MaxResources)}

RECURSIVE Concat(_)
Concat(pieces) ==
    IF Len(pieces) = 0 THEN "" ELSE pieces[1] \o Concat(Tail(pieces))

Pieces == {"u", "\n", sshStartToken, sshEndToken}

PriorFiles == {Concat(p) : p \in SeqsUpTo(Pieces, MaxPieces)}

(***************************************************************************)
(* State.                                                                  *)
(***************************************************************************)
VARIABLES
    \* --- the environment, fixed over a behaviour
    workspaces,             \* WorkspacesByOwner's answer, each workspace with
                            \* the answer of TemplateVersionResources for it
    sshOptions,             \* --ssh-option
    skipProxyCommand,       \* --skip-proxy-command
    binaryFile,             \* what currentBinPath returns
    root,                   \* what createConfig returns
    \* --- the file system
    dirExists,              \* filepath.Dir(sshConfigFile) exists
    fileExists,             \* sshConfigFile exists
    fileContent,            \* its content
    \* --- the run in progress
    pc,                     \* where RunE is
    sshConfigContent,       \* the buffer
    sshConfigContentMutex,  \* 0, or the task that holds the mutex
    tasks,                  \* the goroutines errGroup.Go launched
    errGroupErr,            \* errGroup's first error: 0, or the task
    result,                 \* what the last run returned
    stdout,                 \* the alias the last run's hint named
    \* --- history
    runsLeft,               \* times the command is still to be run
    prevResult,             \* what the run before the last returned
    startFile,              \* the file system when the last run started
    origContent,            \* the file's content before the first run
    headerEnd,              \* len(sshConfigContent) after line 76
    appended                \* the <<workspace, resource, agent>> of each
                            \* stanza appended, in order

env == <<workspaces, sshOptions, skipProxyCommand, binaryFile, root>>

fs == <<dirExists, fileExists, fileContent>>

hist == <<runsLeft, prevResult, startFile, origContent, headerEnd, appended>>

vars == <<env, fs, pc, sshConfigContent, sshConfigContentMutex, tasks,
          errGroupErr, result, stdout, hist>>

(***************************************************************************)
(* Lines 56-60: the removal of the old block.                              *)
(***************************************************************************)
startIndex(content) == Index(content, sshStartToken)

endIndex(content) == Index(content, sshEndToken)

\* the condition of line 58
BothTokens(content) == startIndex(content) # -1 /\ endIndex(content) # -1

\* line 59 panics (slice bounds out of range) when its first slice ends at -1
ExcisePanics(content) == BothTokens(content) /\ startIndex(content) - 1 < 0

\* sshConfigContent after line 60, when line 59 does not panic
Excise(content) ==
    IF BothTokens(content)
    THEN Slice(content, 0, startIndex(content) - 1)
            \o Slice(content, endIndex(content) + Len(sshEndToken), Len(content))
    ELSE content

\* what line 76 appends
Header == "\n" \o sshStartToken \o "\n" \o sshStartMessage \o "\n\n"

\* what line 127 appends
Footer == "\n" \o sshEndToken

(***************************************************************************)
(* Lines 86-119: what one task appends.                                    *)
(***************************************************************************)
\* lines 92-95 with the agent's name appended whatever the number of agents
hostname_AlwaysQualified(workspace, resource, agent) ==
    workspace.Name \o "." \o agent.Name

\* lines 92-95
hostname(workspace, resource, agent) ==
    IF Len(resource.Agents) > 1
    THEN workspace.Name \o "." \o agent.Name
    ELSE workspace.Name

\* line 114
ProxyCommandLine(host) ==
    "\tProxyCommand " \o Quote(binaryFile) \o " --global-config " \o Quote(root)
        \o " ssh --stdio " \o host

\* lines 96-115 with the extra options appended after the fixed ones
configOptions_OptionsLast(workspace, resource, agent) ==
    LET host == hostname(workspace, resource, agent)
    IN  <<"Host coder." \o host,
          "\tHostName coder." \o host,
          "\tConnectTimeout=0",
          "\tStrictHostKeyChecking=no",
          "\tUserKnownHostsFile=/dev/null",
          "\tLogLevel ERROR">>
        \o [i \in 1..Len(sshOptions) |-> "\t" \o sshOptions[i]]
        \o (IF ~skipProxyCommand THEN <<ProxyCommandLine(host)>> ELSE <<>>)

\* lines 96-115
configOptions(workspace, resource, agent) ==
    LET host == hostname(workspace, resource, agent)
    IN  <<"Host coder." \o host>>
        \o [i \in 1..Len(sshOptions) |-> "\t" \o sshOptions[i]]
        \o <<"\tHostName coder." \o host,
             "\tConnectTimeout=0",
             "\tStrictHostKeyChecking=no",
             "\tUserKnownHostsFile=/dev/null",
             "\tLogLevel ERROR">>
        \o (IF ~skipProxyCommand THEN <<ProxyCommandLine(host)>> ELSE <<>>)

\* the right-hand side of line 116
Stanza(workspace, resource, agent) ==
    Join(configOptions(workspace, resource, agent), "\n") \o "\n"

\* line 87 without its test of the transition
Visited_Any(resource) == TRUE

\* line 87: the resources whose agents the loop of line 90 visits
Visited(resource) == resource.Transition = WorkspaceTransitionStart

RECURSIVE AgentVisits_AgentsReversed(_, _)
\* the loops with the agents of each resource taken last to first
AgentVisits_AgentsReversed(resources, r) ==
    IF r > Len(resources) THEN <<>>
    ELSE (IF Visited(resources[r])
          THEN [a \in 1..Len(resources[r].Agents) |->
                   <<r, Len(resources[r].Agents) + 1 - a>>]
          ELSE <<>>)
         \o AgentVisits_AgentsReversed(resources, r + 1)

RECURSIVE AgentVisits(_, _)
\* lines 86-90: the <<resource, agent>> indices the two loops visit from
\* resource r on, in order
AgentVisits(resources, r) ==
    IF r > Len(resources) THEN <<>>
    ELSE (IF Visited(resources[r])
          THEN [a \in 1..Len(resources[r].Agents) |-> <<r, a>>]
          ELSE <<>>)
         \o AgentVisits(resources, r + 1)

\* the stanza task w renders at the i-th visit of its loops
StanzaAt(w, i) ==
    LET v == AgentVisits(workspaces[w].Resources, 1)[i]
        resource == workspaces[w].Resources[v[1]]
    IN  Stanza(workspaces[w], resource, resource.Agents[v[2]])

(***************************************************************************)
(* Initial states: a file system, the resolver's answers and the flags.    *)
(***************************************************************************)
NoRun ==
    /\ pc = "idle"
    /\ sshConfigContent = ""
    /\ sshConfigContentMutex = 0
    /\ tasks = <<>>
    /\ errGroupErr = 0
    /\ result = "none"
    /\ stdout = ""
    /\ prevResult = "none"
    /\ startFile = [dir |-> dirExists, exists |-> fileExists, content |-> fileContent]
    /\ origContent = fileContent
    /\ headerEnd = 0
    /\ appended = <<>>

OneAgent == [Transition |-> WorkspaceTransitionStart, NumAgents |-> 1]

\* the command run MaxRuns times on any prior file, under no workspace, one,
\* or two of one agent each
InitFiles ==
    /\ dirExists = TRUE
    /\ fileExists = TRUE
    /\ fileContent \in PriorFiles
    /\ workspaces \in {<<>>,
                       MakeWorkspaces(1, <<OneAgent>>, 0),
                       MakeWorkspaces(2, <<OneAgent, OneAgent>>, 1)}
    /\ sshOptions = <<>>
    /\ skipProxyCommand = TRUE
    /\ binaryFile = "coder"
    /\ root \in Roots
    /\ runsLeft = MaxRuns
    /\ NoRun

\* the command run once on any answer of the resolver, with no prior file
InitTopologies ==
    /\ dirExists = TRUE
    /\ fileExists = FALSE
    /\ fileContent = ""
    /\ workspaces \in Topologies
    /\ sshOptions = <<>>
    /\ skipProxyCommand = TRUE
    /\ binaryFile = "coder"
    /\ root \in Roots
    /\ runsLeft = 1
    /\ NoRun

ManyAgents == [Transition |-> WorkspaceTransitionStart, NumAgents |-> MaxAgents]

\* the command run once with any flags, with or without the file's directory,
\* under two workspaces:
\* one of a resource of one agent, one of a resource of several
InitFlags ==
    /\ dirExists \in BOOLEAN
    /\ fileExists = FALSE
    /\ fileContent = ""
    /\ workspaces = MakeWorkspaces(2, <<OneAgent, ManyAgents>>, 1)
    /\ sshOptions \in OptionLists
    /\ skipProxyCommand \in BOOLEAN
    /\ binaryFile \in BinaryFiles
    /\ root \in Roots
    /\ runsLeft = 1
    /\ NoRun

\* prior files of one well-formed block set inside a marker cut in two:
\* the marker's first half and one more character before the block, its
\* second half after it
SplitFiles ==
    {Slice(t, 0, Len(t) \div 2) \o "u" \o sshStartToken \o "\n" \o sshEndToken
         \o Slice(t, Len(t) \div 2, Len(t)) : t \in {sshStartToken, sshEndToken}}

\* the command run again and again over such a file, under one workspace
InitSplit ==
    /\ dirExists = TRUE
    /\ fileExists = TRUE
    /\ fileContent \in SplitFiles
    /\ workspaces = MakeWorkspaces(1, <<OneAgent>>, 0)
    /\ sshOptions = <<>>
    /\ skipProxyCommand = TRUE
    /\ binaryFile = "coder"
    /\ root \in Roots
    /\ runsLeft = MaxRuns
    /\ NoRun

Init == InitFiles \/ InitTopologies \/ InitFlags \/ InitSplit

(***************************************************************************)
(* RunE, lines 54-139.                                                     *)
(***************************************************************************)
\* lines 54-60: read the file (an error reads as no content), drop the block
ReadConfig ==
    /\ pc = "idle"
    /\ runsLeft > 0
    /\ LET raw == IF fileExists THEN fileContent ELSE ""
       IN  IF ExcisePanics(raw)
           THEN /\ pc' = "idle"
                /\ result' = "panic"
                /\ sshConfigContent' = raw
           ELSE /\ pc' = "list"
                /\ result' = "none"
                /\ sshConfigContent' = Excise(raw)
    /\ runsLeft' = runsLeft - 1
    /\ prevResult' = result
    /\ startFile' = [dir |-> dirExists, exists |-> fileExists, content |-> fileContent]
    /\ sshConfigContentMutex' = 0
    /\ tasks' = <<>>
    /\ errGroupErr' = 0
    /\ stdout' = ""
    /\ headerEnd' = 0
    /\ appended' = <<>>
    /\ UNCHANGED <<env, fs, origContent>>

\* line 66 without its test
NoneToConfigure_Never == FALSE

\* line 66
NoneToConfigure == Len(workspaces) = 0

\* lines 62-68
ListWorkspaces ==
    /\ pc = "list"
    /\ \E err \in BOOLEAN :
          IF err
          THEN pc' = "idle" /\ result' = "WorkspacesByOwner"
          ELSE IF NoneToConfigure
          THEN pc' = "idle" /\ result' = "NoWorkspaces"
          ELSE pc' = "launch" /\ result' = result
    /\ UNCHANGED <<env, fs, sshConfigContent, sshConfigContentMutex, tasks,
                   errGroupErr, stdout, hist>>

\* lines 70-122: the header, then one goroutine per workspace (a goroutine
\* not yet scheduled is one that has not taken its first step)
Launch ==
    /\ pc = "launch"
    /\ sshConfigContent' = sshConfigContent \o Header
    /\ headerEnd' = Len(sshConfigContent')
    /\ tasks' = [w \in 1..Len(workspaces) |-> [pc |-> "go", i |-> 0, tmp |-> ""]]
    /\ pc' = "wait"
    /\ UNCHANGED <<env, fs, sshConfigContentMutex, errGroupErr, result, stdout,
                   runsLeft, prevResult, startFile, origContent, appended>>

\* where a task goes after its i-th visit
AfterVisit(w, i) ==
    IF i < Len(AgentVisits(workspaces[w].Resources, 1))
    THEN [pc |-> "lock", i |-> i + 1, tmp |-> ""]
    ELSE [pc |-> "ok", i |-> i, tmp |-> ""]

\* errgroup.Group.Go: the first error returned is kept
FirstErr(w) == IF errGroupErr = 0 THEN w ELSE errGroupErr

\* lines 82-85
TaskFetch(w) ==
    /\ pc = "wait"
    /\ tasks[w].pc = "go"
    /\ \E err \in BOOLEAN :
          IF err
          THEN /\ tasks' = [tasks EXCEPT ![w].pc = "err"]
               /\ errGroupErr' = FirstErr(w)
          ELSE /\ tasks' = [tasks EXCEPT ![w] = AfterVisit(w, 0)]
               /\ errGroupErr' = errGroupErr
    /\ UNCHANGED <<env, fs, pc, sshConfigContent, sshConfigContentMutex, result,
                   stdout, hist>>

\* a Lock that returns at once
LockFree_Always == TRUE

\* sync.Mutex.Lock returns only when no goroutine holds the mutex
LockFree == sshConfigContentMutex = 0

\* line 91
TaskLock(w) ==
    /\ pc = "wait"
    /\ tasks[w].pc = "lock"
    /\ LockFree
    /\ sshConfigContentMutex' = w
    /\ tasks' = [tasks EXCEPT ![w].pc = "read"]
    /\ UNCHANGED <<env, fs, pc, sshConfigContent, errGroupErr, result, stdout, hist>>

\* lines 92-116: the right-hand side of +=
TaskRead(w) ==
    /\ pc = "wait"
    /\ tasks[w].pc = "read"
    /\ tasks' = [tasks EXCEPT ![w].pc = "write",
                              ![w].tmp = sshConfigContent \o StanzaAt(w, tasks[w].i)]
    /\ UNCHANGED <<env, fs, pc, sshConfigContent, sshConfigContentMutex,
                   errGroupErr, result, stdout, hist>>

\* line 116: the assignment of +=
TaskWrite(w) ==
    /\ pc = "wait"
    /\ tasks[w].pc = "write"
    /\ sshConfigContent' = tasks[w].tmp
    /\ appended' = Append(appended,
                          <<w>> \o AgentVisits(workspaces[w].Resources, 1)[tasks[w].i])
    /\ tasks' = [tasks EXCEPT ![w].pc = "unlock", ![w].tmp = ""]
    /\ UNCHANGED <<env, fs, pc, sshConfigContentMutex, errGroupErr, result, stdout,
                   runsLeft, prevResult, startFile, origContent, headerEnd>>

\* a path out of the critical section that leaves the mutex held
TaskUnlock_KeepsMutex(w) ==
    /\ pc = "wait"
    /\ tasks[w].pc = "unlock"
    /\ sshConfigContentMutex' = sshConfigContentMutex
    /\ tasks' = [tasks EXCEPT ![w] = AfterVisit(w, tasks[w].i)]
    /\ UNCHANGED <<env, fs, pc, sshConfigContent, errGroupErr, result, stdout, hist>>

\* lines 117-120
TaskUnlock(w) ==
    /\ pc = "wait"
    /\ tasks[w].pc = "unlock"
    /\ sshConfigContentMutex' = 0
    /\ tasks' = [tasks EXCEPT ![w] = AfterVisit(w, tasks[w].i)]
    /\ UNCHANGED <<env, fs, pc, sshConfigContent, errGroupErr, result, stdout, hist>>

\* a Wait that returns as soon as one goroutine has failed
AllReturned_OrFailed ==
    \/ errGroupErr # 0
    \/ \A w \in DOMAIN tasks : tasks[w].pc \in {"ok", "err"}

\* errgroup.Group.Wait returns once every goroutine has returned
AllReturned == \A w \in DOMAIN tasks : tasks[w].pc \in {"ok", "err"}

\* a Wait that drops the error once every goroutine has returned
WaitErr_Nil == IF AllReturned THEN 0 ELSE errGroupErr

\* what errgroup.Group.Wait returns: 0 for nil
WaitErr == errGroupErr

\* lines 123-127
Wait ==
    /\ pc = "wait"
    /\ AllReturned
    /\ IF WaitErr # 0
       THEN /\ pc' = "idle"
            /\ result' = "TemplateVersionResources"
            /\ sshConfigContent' = sshConfigContent
       ELSE /\ pc' = "mkdir"
            /\ result' = result
            /\ sshConfigContent' = sshConfigContent \o Footer
    /\ UNCHANGED <<env, fs, sshConfigContentMutex, tasks, errGroupErr, stdout, hist>>

\* lines 128-131: os.MkdirAll returns nil for a directory that exists
MkdirAll ==
    /\ pc = "mkdir"
    /\ \E err \in {FALSE, ~dirExists} :
          IF err
          THEN pc' = "idle" /\ result' = "MkdirAll" /\ dirExists' = dirExists
          ELSE pc' = "write" /\ result' = result /\ dirExists' = TRUE
    /\ UNCHANGED <<env, fileExists, fileContent, sshConfigContent,
                   sshConfigContentMutex, tasks, errGroupErr, stdout, hist>>

\* line 138
Hint == "coder." \o workspaces[1].Name

\* lines 132-139: os.WriteFile opens the file (creating or truncating it) and
\* writes it; a failure leaves the file as it was or truncated
WriteFile ==
    /\ pc = "write"
    /\ \E outcome \in {"written", "unopened", "truncated"} :
          /\ fileExists' = (fileExists \/ outcome # "unopened")
          /\ fileContent' = IF outcome = "written" THEN sshConfigContent
                            ELSE IF outcome = "truncated" THEN ""
                            ELSE fileContent
          /\ result' = IF outcome = "written" THEN "ok" ELSE "WriteFile"
          /\ stdout' = IF outcome = "written" THEN Hint ELSE stdout
    /\ pc' = "idle"
    /\ UNCHANGED <<env, dirExists, sshConfigContent, sshConfigContentMutex, tasks,
                   errGroupErr, hist>>

Next ==
    \/ ReadConfig
    \/ ListWorkspaces
    \/ Launch
    \/ \E w \in DOMAIN tasks : TaskFetch(w)
    \/ \E w \in DOMAIN tasks : TaskLock(w)
    \/ \E w \in DOMAIN tasks : TaskRead(w)
    \/ \E w \in DOMAIN tasks : TaskWrite(w)
    \/ \E w \in DOMAIN tasks : TaskUnlock(w)
    \/ Wait
    \/ MkdirAll
    \/ WriteFile

Spec == Init /\ [][Next]_vars

\* The Go scheduler runs every runnable goroutine, a blocked Lock returns
\* once the mutex is free and stays free, every call to the resolver and to
\* the file system returns, and the command's own goroutine goes on from
\* one statement to the next; nothing makes the user run the command again.
Fairness ==
    /\ WF_vars(ListWorkspaces)
    /\ WF_vars(Launch)
    /\ \A w \in 1..Len(WorkspaceNames) :
          /\ WF_vars(w \in DOMAIN tasks /\ TaskFetch(w))
          /\ WF_vars(w \in DOMAIN tasks /\ TaskLock(w))
          /\ WF_vars(w \in DOMAIN tasks /\ TaskRead(w))
          /\ WF_vars(w \in DOMAIN tasks /\ TaskWrite(w))
          /\ WF_vars(w \in DOMAIN tasks /\ TaskUnlock(w))
    /\ WF_vars(Wait)
    /\ WF_vars(MkdirAll)
    /\ WF_vars(WriteFile)

\* the runs whose progress is in question: every answer of the resolver and
\* every setting of the flags, and runs repeated over a prior file
FairInit == InitTopologies \/ InitFlags \/ InitSplit

FairSpec == FairInit /\ [][Next]_vars /\ Fairness

(***************************************************************************)
(* Reading the texts the properties are about.                             *)
(***************************************************************************)
HasPrefix(s, prefix) == MatchAt(s, prefix, 0)

HasSuffix(s, suffix) ==
    Len(suffix) <= Len(s) /\ MatchAt(s, suffix, Len(s) - Len(suffix))

\* the number of occurrences of sub in s
Count(s, sub) == Cardinality({i \in 0..(Len(s) - Len(sub)) : MatchAt(s, sub, i)})

\* the positions of the newlines of s
Newlines(s) == {i \in 1..Len(s) : SubSeq(s, i, i) = "\n"}

\* the lines of s: what lies between two newlines, or between one and an end
Lines(s) ==
    LET nl == Newlines(s)
        cuts == nl \cup {0}
        kth(k) == CHOOSE p \in cuts : Cardinality({q \in cuts : q < p}) = k - 1
        end(p) == IF \E q \in nl : q > p
                  THEN (CHOOSE q \in nl : q > p /\ \A x \in nl : x > p => q <= x) - 1
                  ELSE Len(s)
    IN  [k \in 1..Cardinality(cuts) |-> SubSeq(s, kth(k) + 1, end(kth(k)))]

\* the stanzas of a block body: each runs from a line that is neither empty
\* nor indented up to the next such line
ParseStanzas(body) ==
    LET ls == Lines(body)
        heads == {k \in 1..Len(ls) : ls[k] # "" /\ ~HasPrefix(ls[k], "\t")}
        kth(k) == CHOOSE h \in heads : Cardinality({g \in heads : g < h}) = k - 1
        last(h) == IF \E g \in heads : g > h
                   THEN (CHOOSE g \in heads : g > h /\ \A x \in heads : x > h => g <= x) - 1
                   ELSE Len(ls) - 1
    IN  [k \in 1..Cardinality(heads) |-> SubSeq(ls, kth(k), last(kth(k)))]

\* a run has returned nil
Succeeded == pc = "idle" /\ result = "ok"

\* the file system is as the run in progress, or the last run, found it
FileSystemUntouched ==
    /\ dirExists = startFile.dir
    /\ fileExists = startFile.exists
    /\ fileContent = startFile.content

\* after a successful run: what the file holds between the header and the
\* end marker the run appended
WrittenBody == Slice(fileContent, headerEnd, Len(fileContent) - Len(Footer))

\* the <<workspace, resource, agent>> indices of the agents of the
\* start-transition resources of the resolver's answer
StartTriples ==
    {t \in (DOMAIN workspaces) \X (1..MaxResources) \X (1..MaxAgents) :
        /\ t[2] \in DOMAIN workspaces[t[1]].Resources
        /\ workspaces[t[1]].Resources[t[2]].Transition = WorkspaceTransitionStart
        /\ t[3] \in DOMAIN workspaces[t[1]].Resources[t[2]].Agents}

StanzaOf(t) ==
    LET resource == workspaces[t[1]].Resources[t[2]]
    IN  Stanza(workspaces[t[1]], resource, resource.Agents[t[3]])

RECURSIVE IsConcatOfAll(_, _)
\* text is the stanzas of the triples, each once, in some order
IsConcatOfAll(text, triples) ==
    IF triples = {} THEN text = ""
    ELSE \E t \in triples :
            /\ HasPrefix(text, StanzaOf(t))
            /\ IsConcatOfAll(Slice(text, Len(StanzaOf(t)), Len(text)), triples \ {t})

(***************************************************************************)
(* C1. Two runs in succession: the file after the second run is            *)
(* byte-identical to the file after the first (which is the file the       *)
(* second run started from), for every prior file and every interleaving   *)
(* of the tasks in both runs.                                              *)
(***************************************************************************)
C1_SecondRunIdentical ==
    (Succeeded /\ prevResult = "ok") => fileContent = startFile.content

(***************************************************************************)
(* C2. Once the workspace-list call or a resource fetch of the run has     *)
(* returned an error, the file system stays as the run found it, whatever  *)
(* the other tasks appended to the buffer, and the run returns that error. *)
(***************************************************************************)
ResolverFailed ==
    \/ (pc = "idle" /\ result = "WorkspacesByOwner")
    \/ \E w \in DOMAIN tasks : tasks[w].pc = "err"

C2_NoWriteOnResolverFailure ==
    ResolverFailed =>
        /\ FileSystemUntouched
        /\ pc \in {"idle", "wait"}
        /\ pc = "idle" => result \in {"WorkspacesByOwner", "TemplateVersionResources"}

C2_Witness ==
    /\ pc = "idle"
    /\ result = "TemplateVersionResources"
    /\ appended # <<>>
    /\ fileExists
    /\ fileContent # ""

(***************************************************************************)
(* C3. With no workspace in the resolver's answer no task is ever          *)
(* launched, the run never gets past the listing, it returns an error and  *)
(* the file system stays as it was.                                        *)
(***************************************************************************)
C3_EmptyWorkspaceFails ==
    Len(workspaces) = 0 =>
        /\ pc \in {"idle", "list"}
        /\ tasks = <<>>
        /\ FileSystemUntouched
        /\ fileContent = origContent
        /\ result \in {"none", "panic", "WorkspacesByOwner", "NoWorkspaces"}

C3_Witness ==
    /\ Len(workspaces) = 0
    /\ pc = "idle"
    /\ result = "NoWorkspaces"
    /\ fileExists
    /\ fileContent # ""

(***************************************************************************)
(* C4. A successful run on a file with exactly one well-formed managed     *)
(* block writes a file whose content outside its block (before the start   *)
(* marker, after the end marker) is the prior file's content outside its   *)
(* block.                                                                  *)
(***************************************************************************)
OneWellFormedBlock(text) ==
    /\ Count(text, sshStartToken) = 1
    /\ Count(text, sshEndToken) = 1
    /\ startIndex(text) < endIndex(text)

NonBlock(text) ==
    Slice(text, 0, startIndex(text))
        \o Slice(text, endIndex(text) + Len(sshEndToken), Len(text))

C4_NonBlockPreserved ==
    (Succeeded /\ startFile.exists /\ OneWellFormedBlock(startFile.content)) =>
        NonBlock(fileContent) = NonBlock(startFile.content)

(***************************************************************************)
(* C5. After a successful run the file ends with the header, then exactly  *)
(* one whole stanza for each agent of each start-transition resource of    *)
(* each workspace, in some order, then the end marker: whatever the        *)
(* interleaving of the tasks was.                                          *)
(***************************************************************************)
C5_BlockComplete ==
    Succeeded =>
        /\ headerEnd >= Len(Header)
        /\ Slice(fileContent, headerEnd - Len(Header), headerEnd) = Header
        /\ HasSuffix(fileContent, Footer)
        /\ IsConcatOfAll(WrittenBody, StartTriples)

\* a stanza of the second workspace lies between two of the first
C5_Witness ==
    /\ Succeeded
    /\ Len(appended) >= 3
    /\ \E i \in 1..(Len(appended) - 2) :
          /\ appended[i][1] = appended[i + 2][1]
          /\ appended[i][1] # appended[i + 1][1]

(***************************************************************************)
(* C6. In the block a successful run wrote no two stanzas carry the same   *)
(* Host line (the agents of the resolver's answer are all of different     *)
(* names, so the stanzas are of distinct workspace and agent pairs).       *)
(***************************************************************************)
C6_AliasesDistinct ==
    Succeeded =>
        LET stanzas == ParseStanzas(WrittenBody)
        IN  \A i, j \in DOMAIN stanzas : i # j => stanzas[i][1] # stanzas[j][1]

(***************************************************************************)
(* C7. The k-th stanza of the written block is the one of the k-th append; *)
(* its alias is the workspace's name when the agent's resource has exactly *)
(* one agent and the workspace's name, a dot and the agent's name when it  *)
(* has more; the Host line, the HostName line and the end of the           *)
(* ProxyCommand line all carry it.                                         *)
(***************************************************************************)
AliasOf(t) ==
    LET workspace == workspaces[t[1]]
        resource == workspace.Resources[t[2]]
    IN  IF Len(resource.Agents) = 1
        THEN workspace.Name
        ELSE workspace.Name \o "." \o resource.Agents[t[3]].Name

C7_AliasDerivation ==
    Succeeded =>
        LET stanzas == ParseStanzas(WrittenBody)
        IN  /\ Len(stanzas) = Len(appended)
            /\ \A k \in DOMAIN stanzas :
                  LET st == stanzas[k]
                      alias == AliasOf(appended[k])
                  IN  /\ st[1] = "Host coder." \o alias
                      /\ Cardinality({i \in DOMAIN st : st[i] = "\tHostName coder." \o alias}) = 1
                      /\ \A i \in DOMAIN st :
                            HasPrefix(st[i], "\tHostName ") => st[i] = "\tHostName coder." \o alias
                      /\ \A i \in DOMAIN st :
                            HasPrefix(st[i], "\tProxyCommand ") =>
                                HasSuffix(st[i], " ssh --stdio " \o alias)
                      /\ ~skipProxyCommand =>
                            \E i \in DOMAIN st : HasPrefix(st[i], "\tProxyCommand ")

\* a block with the stanza of a lone agent and the stanzas of a resource of
\* several, with their ProxyCommand lines
C7_Witness ==
    /\ Succeeded
    /\ ~skipProxyCommand
    /\ \E i, j \in DOMAIN appended :
          /\ Len(workspaces[appended[i][1]].Resources[appended[i][2]].Agents) = 1
          /\ Len(workspaces[appended[j][1]].Resources[appended[j][2]].Agents) > 1

(***************************************************************************)
(* C8. No stanza is ever appended for an agent of a resource whose         *)
(* transition is not "start", and the block a successful run wrote holds   *)
(* as many stanzas as the start-transition resources have agents, each     *)
(* agent of theirs appended once.                                          *)
(***************************************************************************)
Range(f) == {f[x] : x \in DOMAIN f}

C8_SkipOnTeardown ==
    /\ \A k \in DOMAIN appended :
          workspaces[appended[k][1]].Resources[appended[k][2]].Transition
              = WorkspaceTransitionStart
    /\ Succeeded =>
          /\ Range(appended) = StartTriples
          /\ Len(appended) = Cardinality(StartTriples)
          /\ Len(ParseStanzas(WrittenBody)) = Cardinality(StartTriples)

\* a workspace with agents under a stopped resource and under a started one
C8_Witness ==
    /\ Succeeded
    /\ \E w \in DOMAIN workspaces :
          \E r1, r2 \in DOMAIN workspaces[w].Resources :
             /\ workspaces[w].Resources[r1].Transition = WorkspaceTransitionStop
             /\ Len(workspaces[w].Resources[r1].Agents) > 0
             /\ workspaces[w].Resources[r2].Transition = WorkspaceTransitionStart
             /\ Len(workspaces[w].Resources[r2].Agents) > 0

(***************************************************************************)
(* C9. Every stanza of the written block is: the Host line, the extra      *)
(* options in their order, each behind a tab, the HostName line, the four  *)
(* fixed option lines, and then the ProxyCommand line, last and only once, *)
(* unless --skip-proxy-command is set, and then no ProxyCommand line.      *)
(***************************************************************************)
C9_StanzaShape ==
    Succeeded =>
        LET stanzas == ParseStanzas(WrittenBody)
            n == Len(sshOptions)
        IN  /\ Len(stanzas) = Len(appended)
            /\ \A k \in DOMAIN stanzas :
                  LET st == stanzas[k]
                      proxies == {i \in DOMAIN st : HasPrefix(st[i], "\tProxyCommand ")}
                  IN  /\ Len(st) = n + 6 + (IF skipProxyCommand THEN 0 ELSE 1)
                      /\ HasPrefix(st[1], "Host coder.")
                      /\ \A i \in 1..n : st[1 + i] = "\t" \o sshOptions[i]
                      /\ HasPrefix(st[n + 2], "\tHostName coder.")
                      /\ st[n + 3] = "\tConnectTimeout=0"
                      /\ st[n + 4] = "\tStrictHostKeyChecking=no"
                      /\ st[n + 5] = "\tUserKnownHostsFile=/dev/null"
                      /\ st[n + 6] = "\tLogLevel ERROR"
                      /\ proxies = IF skipProxyCommand THEN {} ELSE {Len(st)}
                      /\ ~skipProxyCommand =>
                            HasPrefix(st[Len(st)],
                                      "\tProxyCommand " \o Quote(binaryFile)
                                          \o " --global-config " \o Quote(root)
                                          \o " ssh --stdio ")

C9_Witness ==
    /\ Succeeded
    /\ Len(sshOptions) = 2
    /\ ~skipProxyCommand
    /\ Len(appended) >= 2

(***************************************************************************)
(* C10. On a prior file with at most one of the two markers the removal    *)
(* changes nothing, a successful first run writes the prior content and    *)
(* then a fresh block, and a successful second run still keeps the whole   *)
(* prior content at the head of the file.                                  *)
(***************************************************************************)
C10_MissingMarkerKept ==
    ~BothTokens(origContent) =>
        /\ Excise(origContent) = origContent
        /\ (Succeeded /\ runsLeft = MaxRuns - 1) =>
              /\ HasPrefix(fileContent, origContent \o Header)
              /\ headerEnd = Len(origContent \o Header)
        /\ (Succeeded /\ prevResult = "ok" /\ runsLeft = MaxRuns - 2) =>
              HasPrefix(fileContent, origContent)

(***************************************************************************)
(* C11. The removal of the block is idempotent: what line 60 leaves, for   *)
(* any file read, holds no pair of markers any more, and removing the      *)
(* block from it again changes nothing.                                    *)
(***************************************************************************)
C11_ExciseIdempotent ==
    pc = "list" =>
        /\ ~BothTokens(sshConfigContent)
        /\ Excise(sshConfigContent) = sshConfigContent

(***************************************************************************)
(* C12. Whatever the names, the extra options, the binary path and the     *)
(* config root, no line a successful run wrote between its header and its  *)
(* end marker holds the start marker or the end marker, so that the first  *)
(* end marker after the run's header is the one the run appended.          *)
(***************************************************************************)
C12_NoMarkerInStanzas ==
    Succeeded =>
        /\ Count(WrittenBody, sshStartToken) = 0
        /\ Count(WrittenBody, sshEndToken) = 0
        /\ Index(Slice(fileContent, headerEnd, Len(fileContent)), sshEndToken)
              = Len(WrittenBody) + 1

(***************************************************************************)
(* C13. The alias the hint of a successful run names is the Host alias of  *)
(* a stanza of the block the run wrote.                                    *)
(***************************************************************************)
C13_HintIsWrittenHost ==
    Succeeded =>
        LET stanzas == ParseStanzas(WrittenBody)
        IN  \E k \in DOMAIN stanzas : stanzas[k][1] = "Host " \o stdout

(***************************************************************************)
(* C14. At most one task is between Lock and Unlock, and it is the one the *)
(* mutex records; a task is at the read or the write of += only there; and *)
(* no append is lost: the buffer is as long as it was after the header     *)
(* plus the lengths of the stanzas appended, which are all the stanzas     *)
(* once every task has returned nil.                                       *)
(***************************************************************************)
InCriticalSection(w) == tasks[w].pc \in {"read", "write", "unlock"}

RECURSIVE AppendedLen(_)
\* the summed lengths of the stanzas of the first k appends
AppendedLen(k) ==
    IF k = 0 THEN 0 ELSE Len(StanzaOf(appended[k])) + AppendedLen(k - 1)

C14_MutualExclusion ==
    /\ Cardinality({w \in DOMAIN tasks : InCriticalSection(w)}) <= 1
    /\ \A w \in DOMAIN tasks : InCriticalSection(w) <=> sshConfigContentMutex = w
    /\ pc = "wait" =>
          Len(sshConfigContent) = headerEnd + AppendedLen(Len(appended))
    /\ (pc = "wait" /\ \A w \in DOMAIN tasks : tasks[w].pc = "ok") =>
          Len(appended) = Cardinality(StartTriples)

\* one task is about to assign the buffer while another waits at Lock
C14_Witness ==
    \E w1, w2 \in DOMAIN tasks :
        /\ tasks[w1].pc = "write"
        /\ tasks[w2].pc = "lock"
        /\ appended # <<>>

(***************************************************************************)
(* C15. The end marker is appended, the file written and the run returned  *)
(* only when every launched task has returned; once the end marker is      *)
(* appended no task appends; the error the group keeps is that of the      *)
(* first task to fail, the other tasks go on to return after it, and that  *)
(* error is the one the run returns.                                       *)
(***************************************************************************)
PastBarrier ==
    \/ pc \in {"mkdir", "write"}
    \/ pc = "idle" /\ result \in {"ok", "MkdirAll", "WriteFile",
                                  "TemplateVersionResources"}

Failed == {w \in DOMAIN tasks : tasks[w].pc = "err"}

BarrierHolds ==
    /\ PastBarrier =>
          /\ DOMAIN tasks = 1..Len(workspaces)
          /\ \A w \in DOMAIN tasks : tasks[w].pc \in {"ok", "err"}
          /\ sshConfigContentMutex = 0
    /\ pc \in {"mkdir", "write"} =>
          /\ Failed = {}
          /\ Len(sshConfigContent)
                = headerEnd + AppendedLen(Len(appended)) + Len(Footer)
          /\ HasSuffix(sshConfigContent, Footer)
    /\ (pc = "idle" /\ result = "TemplateVersionResources") =>
          /\ errGroupErr \in Failed
          /\ ~HasSuffix(sshConfigContent, Footer)
    /\ (pc = "wait" /\ Failed # {}) => errGroupErr \in Failed
    /\ (pc = "wait" /\ Failed = {}) => errGroupErr = 0

BarrierStep ==
    /\ appended' # appended /\ appended' # <<>> => pc = "wait" /\ pc' = "wait"
    /\ (pc = "wait" /\ errGroupErr # 0) => errGroupErr' = errGroupErr
    /\ (pc = "wait" /\ errGroupErr = 0 /\ errGroupErr' # 0) =>
          /\ Failed = {}
          /\ tasks'[errGroupErr'].pc = "err"
    /\ \A w \in DOMAIN tasks :
          (pc = "wait" /\ pc' = "idle") => tasks'[w] = tasks[w]

C15_JoinBarrier == []BarrierHolds /\ [][BarrierStep]_vars

\* one task has failed and another is still about to assign the buffer
C15_Witness ==
    /\ pc = "wait"
    /\ \E w1, w2 \in DOMAIN tasks :
          /\ tasks[w1].pc = "err"
          /\ errGroupErr = w1
          /\ tasks[w2].pc = "write"

(***************************************************************************)
(* C16. A run that starts from a file holding both markers with the first  *)
(* end marker before the first start marker returns a format error, does   *)
(* not excise, and leaves the file system as it found it.                  *)
(***************************************************************************)
Reversed(content) ==
    /\ BothTokens(content)
    /\ endIndex(content) < startIndex(content)

StartedReversed == startFile.exists /\ Reversed(startFile.content)

C16_ReversedRejected ==
    (runsLeft < MaxRuns /\ StartedReversed) =>
        /\ pc = "idle"
        /\ result = "format"
        /\ FileSystemUntouched

(***************************************************************************)
(* C17. From a prior file with no marker, or with exactly one start marker *)
(* and one end marker in that order, every successful run (the runs before *)
(* it successful too, no option naming a marker) writes a file with        *)
(* exactly one start marker and one end marker, the start marker first,    *)
(* and the end marker as its last text.                                    *)
(***************************************************************************)
NoMarker(text) ==
    Count(text, sshStartToken) = 0 /\ Count(text, sshEndToken) = 0

C17_SingleBlock ==
    (/\ Succeeded
     /\ prevResult \in {"none", "ok"}
     /\ sshOptions = <<>>
     /\ NoMarker(origContent) \/ OneWellFormedBlock(origContent)) =>
        /\ OneWellFormedBlock(fileContent)
        /\ HasSuffix(fileContent, sshEndToken)

(***************************************************************************)
(* C18. Under every interleaving the buffer after the header is the        *)
(* stanzas in the order of their appends, and of two stanzas of one        *)
(* workspace the earlier is of an earlier resource, or of the same         *)
(* resource and an earlier agent; the written block keeps that order.      *)
(***************************************************************************)
RECURSIVE AppendedText(_)
\* the stanzas of the first k appends, one after the other
AppendedText(k) ==
    IF k = 0 THEN "" ELSE AppendedText(k - 1) \o StanzaOf(appended[k])

Before(s, t) == s[2] < t[2] \/ (s[2] = t[2] /\ s[3] < t[3])

C18_WorkspaceOrder ==
    /\ \A i, j \in DOMAIN appended :
          (i < j /\ appended[i][1] = appended[j][1]) =>
              Before(appended[i], appended[j])
    /\ pc = "wait" =>
          Slice(sshConfigContent, headerEnd, Len(sshConfigContent))
              = AppendedText(Len(appended))
    /\ Succeeded => WrittenBody = AppendedText(Len(appended))

\* two agents of one resource appended in order, with a stanza of another
\* workspace somewhere between them
C18_Witness ==
    \E i, j, k \in DOMAIN appended :
        /\ i < j /\ j < k
        /\ appended[i][1] = appended[k][1]
        /\ appended[j][1] # appended[i][1]
        /\ appended[i][2] = appended[k][2]
        /\ appended[i][3] < appended[k][3]

(***************************************************************************)
(* C19. Whatever the prior file holds, the removal of the block slices     *)
(* within bounds: no run ends in a runtime panic at the excision.          *)
(***************************************************************************)
C19_ExciseInRange == ~(pc = "idle" /\ result = "panic")

(***************************************************************************)
(* C20. A task holds the mutex only from its Lock to its Unlock: never     *)
(* while it awaits the resolver, never while it waits at Lock (so no Lock  *)
(* inside a critical section), never once it has returned.  So, every      *)
(* fetch returning and every runnable goroutine running, a launched run    *)
(* gets all its tasks returned, passes the barrier, and ends with the      *)
(* file written or with an error.                                          *)
(***************************************************************************)
LockDiscipline ==
    /\ sshConfigContentMutex \in {0} \cup DOMAIN tasks
    /\ \A w \in DOMAIN tasks :
          tasks[w].pc \in {"go", "lock", "ok", "err"} => sshConfigContentMutex # w
    /\ pc # "wait" => sshConfigContentMutex = 0

Terminated ==
    /\ pc = "idle"
    /\ result \in {"ok", "WorkspacesByOwner", "NoWorkspaces",
                   "TemplateVersionResources", "MkdirAll", "WriteFile"}
    /\ result = "ok" => fileExists /\ fileContent = sshConfigContent

C20_Terminates ==
    /\ []LockDiscipline
    /\ \A w \in 1..Len(WorkspaceNames) :
          (pc = "wait" /\ w \in DOMAIN tasks)
              ~> (w \in DOMAIN tasks /\ tasks[w].pc \in {"ok", "err"})
    /\ (pc = "wait") ~> (pc # "wait" /\ AllReturned)
    /\ (pc \in {"list", "launch", "wait", "mkdir", "write"}) ~> Terminated

\* one task is blocked at Lock while the holder of the mutex is about to
\* unlock it
C20_Witness ==
    \E w1, w2 \in DOMAIN tasks :
        /\ tasks[w1].pc = "lock"
        /\ tasks[w2].pc = "unlock"
        /\ sshConfigContentMutex = w2

====
